---- MODULE Spec2Model ----
(***************************************************************************)
(* Model of the MyDocAA backend: the knowledge-base index                  *)
(* (KnowledgeBaseIndexer), the chat orchestrator (ChatbotService) and the  *)
(* reindex job (chat_router.reindex.reindex_all).                          *)
(*                                                                         *)
(* The repository holds two revisions of KnowledgeBaseIndexer:             *)
(*   "root"     src/backend/knowledge_base_service.py  (tenant aware)      *)
(*   "services" src/backend/services/knowledge_base_service.py             *)
(* The routers and the chat service import the class by the package path   *)
(* backend.services.knowledge_base_service; kbClass says which revision is *)
(* deployed under that path.                                               *)
(***************************************************************************)
EXTENDS Integers, Sequences, FiniteSets, TLC

(* ------------------------------ bounds -------------------------------- *)
\* uuid4 values handed out over a behaviour (caps the chunk-id counter)
MaxIds == 2

Users == {"U1", "U2"}
\* file ids, in the order of their upload
FileOrder == <<"F1", "F2">>
FileIds == {FileOrder[i] : i \in 1..Len(FileOrder)}
\* Python None
None == "None"

\* settings.NUMBER_OF_EXPECTED_MAX_DOCUMENTS: a pydantic setting (default 1000,
\* overridable from the environment); the model runs it at a small value so
\* that a file can hold more chunks than the ceiling.
NUMBER_OF_EXPECTED_MAX_DOCUMENTS == 1

(* ------------------------------- text --------------------------------- *)
\* A text is a sequence of characters; these are the whitespace characters.
Whitespace == {" ", "\n"}

RECURSIVE lstrip(_)
lstrip(s) ==
    IF s = <<>> THEN <<>>
    ELSE IF Head(s) \in Whitespace THEN lstrip(Tail(s)) ELSE s

RECURSIVE rstrip(_)
rstrip(s) ==
    IF s = <<>> THEN <<>>
    ELSE IF s[Len(s)] \in Whitespace THEN rstrip(SubSeq(s, 1, Len(s) - 1)) ELSE s

\* str.strip()
strip(s) == rstrip(lstrip(s))

\* contents of the page files handed to index_documents
WsText == <<" ", "\n">>
TextA == <<" ", "a", "\n">>
TextB == <<"b">>

PageOrder == <<"page_1", "page_2">>
PageLabels == {PageOrder[i] : i \in 1..Len(PageOrder)}

\* page mappings (page label -> content of the page file)
PageMaps ==
    { [p \in PageLabels |-> WsText],
      [p \in {"page_1"} |-> TextA],
      [p \in PageLabels |-> IF p = "page_1" THEN WsText ELSE TextB],
      [p \in PageLabels |-> IF p = "page_1" THEN TextA ELSE TextB] }

\* dict iteration order of a page mapping
PageSeq(pages) == SelectSeq(PageOrder, LAMBDA p : p \in DOMAIN pages)

Queries == {<<"a">>, <<"b">>}

(* ------------------------- similarity store --------------------------- *)
\* Characters of a text.
Chars(s) == {s[i] : i \in 1..Len(s)}

\* Distance the store reports between a query text and a stored text; the
\* embedding is external, so a fixed deterministic stand-in is used.
Distance(q, t) ==
    Cardinality((Chars(q) \ Chars(t)) \cup (Chars(t) \ Chars(q)))

\* A where-filter is a dict: a function from metadata keys to values.
EmptyDict == [x \in {} |-> None]
Dict1(k, v) == [x \in {k} |-> v]

\* dict.update(b) applied to a
DictUpdate(a, b) ==
    [k \in (DOMAIN a) \cup (DOMAIN b) |-> IF k \in DOMAIN b THEN b[k] ELSE a[k]]

\* metadata value of a chunk under a key; None when the key is absent
Meta(c, k) ==
    IF k = "user_id" THEN c.user_id
    ELSE IF k = "file_id" THEN c.file_id
    ELSE IF k = "page" THEN c.page
    ELSE None

\* A chunk matches a where-filter when every key is present with that value.
Matches(c, where) ==
    \A k \in DOMAIN where : Meta(c, k) # None /\ Meta(c, k) = where[k]

\* c1 is ranked before c2 for query q (distance, then id, ascending)
Before(q, c1, c2) ==
    \/ Distance(q, c1.text) < Distance(q, c2.text)
    \/ Distance(q, c1.text) = Distance(q, c2.text) /\ c1.id < c2.id

RECURSIVE Ranked(_, _)
Ranked(q, S) ==
    IF S = {} THEN <<>>
    ELSE LET first == CHOOSE c \in S : \A d \in S \ {c} : Before(q, c, d)
         IN <<first>> \o Ranked(q, S \ {first})

\* collection.query(query_texts=[q], where=where, n_results=n): the n nearest
\* matching chunks, nearest first.
Query(coll, q, where, n) ==
    LET all == Ranked(q, {c \in coll : Matches(c, where)})
    IN IF Len(all) <= n THEN all ELSE SubSeq(all, 1, n)

Range(s) == {s[i] : i \in 1..Len(s)}

\* chunks stored for a file
ChunksOf(coll, f) == {c \in coll : c.file_id = f}

(* ------------------------------- tags --------------------------------- *)
\* str.lower(), on the letters the texts of the model can hold
UpperCase ==
    <<"A", "B", "C", "D", "E", "F", "G", "H", "I", "J", "K", "L", "M",
      "N", "O", "P", "Q", "R", "S", "T", "U", "V", "W", "X", "Y", "Z">>
LowerCase ==
    <<"a", "b", "c", "d", "e", "f", "g", "h", "i", "j", "k", "l", "m",
      "n", "o", "p", "q", "r", "s", "t", "u", "v", "w", "x", "y", "z">>
lower(s) ==
    [i \in 1..Len(s) |->
        IF \E k \in 1..26 : UpperCase[k] = s[i]
        THEN LowerCase[CHOOSE k \in 1..26 : UpperCase[k] = s[i]]
        ELSE s[i]]

\* length of the leading run of non-whitespace characters
RECURSIVE WordLen(_)
WordLen(s) ==
    IF s = <<>> \/ Head(s) \in Whitespace THEN 0 ELSE 1 + WordLen(Tail(s))

\* str.split(): the maximal runs of non-whitespace characters, in order
RECURSIVE split(_)
split(s) ==
    LET t == lstrip(s)
    IN IF t = <<>> THEN <<>>
       ELSE <<SubSeq(t, 1, WordLen(t))>> \o split(SubSeq(t, WordLen(t) + 1, Len(t)))

\* the common words generate_tags drops
StopWords ==
    {<<"t", "h", "e">>, <<"a", "n", "d">>, <<"t", "h", "a", "t">>,
      <<"h", "a", "v", "e">>, <<"f", "o", "r">>, <<"n", "o", "t">>,
      <<"w", "i", "t", "h">>, <<"y", "o", "u">>, <<"t", "h", "i", "s">>,
      <<"b", "u", "t">>, <<"h", "i", "s">>, <<"f", "r", "o", "m">>,
      <<"t", "h", "e", "y">>, <<"s", "h", "e">>, <<"h", "e", "r">>,
      <<"b", "e", "e", "n">>, <<"t", "h", "a", "n">>, <<"i", "t", "s">>,
      <<"w", "e", "r", "e">>, <<"s", "a", "i", "d">>, <<"e", "a", "c", "h">>,
      <<"w", "h", "i", "c", "h">>, <<"t", "h", "e", "i", "r">>,
      <<"t", "i", "m", "e">>, <<"w", "i", "l", "l">>,
      <<"a", "b", "o", "u", "t">>, <<"i", "f">>, <<"u", "p">>,
      <<"o", "u", "t">>, <<"m", "a", "n", "y">>, <<"t", "h", "e", "n">>,
      <<"t", "h", "e", "m">>, <<"t", "h", "e", "s", "e">>, <<"s", "o">>,
      <<"s", "o", "m", "e">>, <<"w", "o", "u", "l", "d">>,
      <<"m", "a", "k", "e">>, <<"l", "i", "k", "e">>, <<"i", "n", "t", "o">>,
      <<"h", "i", "m">>, <<"h", "a", "s">>, <<"t", "w", "o">>,
      <<"m", "o", "r", "e">>, <<"v", "e", "r", "y">>, <<"w", "h", "a", "t">>,
      <<"k", "n", "o", "w">>, <<"j", "u", "s", "t">>,
      <<"f", "i", "r", "s", "t">>, <<"g", "e", "t">>, <<"o", "v", "e", "r">>,
      <<"t", "h", "i", "n", "k">>, <<"a", "l", "s", "o">>,
      <<"y", "o", "u", "r">>, <<"w", "o", "r", "k">>, <<"l", "i", "f", "e">>,
      <<"o", "n", "l", "y">>, <<"c", "a", "n">>, <<"s", "t", "i", "l", "l">>,
      <<"s", "h", "o", "u", "l", "d">>, <<"a", "f", "t", "e", "r">> }

\* generate_tags of the root revision: the distinct words longer than three
\* characters that are not common words, ten of them at most;
\* ["document", "text"] when none is left.  Which ten list(set(...))[:10]
\* keeps is up to the iteration order of the set, so the possible returns
\* are a set of tag sets.
generate_tags_returns(text) ==
    LET words == split(lower(text))
        filtered_words == SelectSeq(words, LAMBDA w : Len(w) > 3 /\ w \notin StopWords)
        unique_words == {filtered_words[i] : i \in 1..Len(filtered_words)}
    IN IF unique_words = {}
       THEN {{<<"d", "o", "c", "u", "m", "e", "n", "t">>, <<"t", "e", "x", "t">>}}
       ELSE IF Cardinality(unique_words) <= 10 THEN {unique_words}
       ELSE {S \in SUBSET unique_words : Cardinality(S) = 10}

\* one return of generate_tags, where only one matters
generate_tags(text) == CHOOSE tags \in generate_tags_returns(text) : TRUE

\* generate_tags of the services revision: a fixed placeholder
services_generate_tags(text) ==
    {<<"d", "o", "c", "u", "m", "e", "n", "t">>, <<"s", "a", "m", "p", "l", "e">>}

\* metadata["tags"] of a chunk: the tags the indexing class generated from
\* the chunk's text
ChunkTags(cls, c) ==
    IF cls = "root" THEN generate_tags(c.text) ELSE services_generate_tags(c.text)

(* ------------------ KnowledgeBaseIndexer, root revision ---------------- *)
\* Surviving without the strip: a whitespace-only page survives
Surviving_noStrip(pages) ==
    SelectSeq(PageSeq(pages), LAMBDA p : pages[p] # <<>>)

\* labels of the pages that survive "if not text: continue", in dict order
Surviving(pages) ==
    SelectSeq(PageSeq(pages), LAMBDA p : strip(pages[p]) # <<>>)

\* the chunk written for the i-th surviving page; next is the first fresh id
NewChunks(next, pages, document_name, file_id, user_id) ==
    LET labels == Surviving(pages)
    IN { [id |-> next + i - 1,
          text |-> strip(pages[labels[i]]),
          source |-> document_name,
          page |-> labels[i],
          file_id |-> file_id,
          user_id |-> user_id] : i \in 1..Len(labels) }

\* index_documents that never writes the tenant into the metadata
index_documents_noUser(coll, next, pages, document_name, file_id, user_id, addOk) ==
    LET labels == Surviving(pages)
        new == NewChunks(next, pages, document_name, file_id, None)
    IN IF labels = <<>>
       THEN [coll |-> coll, next |-> next, raised |-> FALSE]
       ELSE IF addOk
            THEN [coll |-> coll \cup new, next |-> next + Len(labels), raised |-> FALSE]
            ELSE [coll |-> coll, next |-> next, raised |-> TRUE]

\* index_documents replacing the chunks the file already had
index_documents_replace(coll, next, pages, document_name, file_id, user_id, addOk) ==
    LET labels == Surviving(pages)
        new == NewChunks(next, pages, document_name, file_id, user_id)
    IN IF labels = <<>>
       THEN [coll |-> coll, next |-> next, raised |-> FALSE]
       ELSE IF addOk
            THEN [coll |-> (coll \ ChunksOf(coll, file_id)) \cup new,
                  next |-> next + Len(labels), raised |-> FALSE]
            ELSE [coll |-> coll, next |-> next, raised |-> TRUE]

\* index_documents(document_paths, document_name, file_id, user_id=None);
\* addOk says whether collection.add succeeds.  The result is the collection
\* afterwards, the next fresh id and whether the call raised.
index_documents(coll, next, pages, document_name, file_id, user_id, addOk) ==
    LET labels == Surviving(pages)
        new == NewChunks(next, pages, document_name, file_id, user_id)
    IN IF labels = <<>>
       THEN [coll |-> coll, next |-> next, raised |-> FALSE]
       ELSE IF addOk
            THEN [coll |-> coll \cup new, next |-> next + Len(labels), raised |-> FALSE]
            ELSE [coll |-> coll, next |-> next, raised |-> TRUE]

\* one formatted result of the root search: the score is the raw distance
RootResult(query, c) ==
    [text |-> c.text, metadata |-> c,
     relevance_score |-> [num |-> Distance(query, c.text), den |-> 1]]

\* the where-filter search hands to the store
search_where(user_id, where_filter) ==
    LET tenant == IF user_id # None THEN Dict1("user_id", user_id) ELSE EmptyDict
    IN IF DOMAIN where_filter # {} THEN DictUpdate(tenant, where_filter) ELSE tenant

\* search answering a failed query with an error entry
search_errorEntry(coll, query, user_id, n_results, where_filter, storeOk) ==
    LET filter_conditions == search_where(user_id, where_filter)
        results == Query(coll, query, filter_conditions, n_results)
    IN IF storeOk
       THEN [i \in 1..Len(results) |-> RootResult(query, results[i])]
       ELSE <<[text |-> <<>>, metadata |-> EmptyDict,
               relevance_score |-> [num |-> 0, den |-> 1]]>>

\* search that never adds the tenant condition to the filter
search_noTenant(coll, query, user_id, n_results, where_filter, storeOk) ==
    LET results == Query(coll, query, where_filter, n_results)
    IN IF storeOk
       THEN [i \in 1..Len(results) |-> RootResult(query, results[i])]
       ELSE <<>>

\* search(query, user_id=None, n_results=5, where_filter=None); storeOk says
\* whether collection.query succeeds.  Never raises.
search(coll, query, user_id, n_results, where_filter, storeOk) ==
    LET filter_conditions == search_where(user_id, where_filter)
        results == Query(coll, query, filter_conditions, n_results)
    IN IF storeOk
       THEN [i \in 1..Len(results) |-> RootResult(query, results[i])]
       ELSE <<>>

\* the where-filter delete_by_file_id hands to the store
delete_by_file_id_where(file_id, user_id) ==
    LET byFile == Dict1("file_id", file_id)
    IN IF user_id # None THEN DictUpdate(byFile, Dict1("user_id", user_id)) ELSE byFile

\* delete_by_file_id whose filter leaves out the file_id
delete_by_file_id_anyFile(coll, file_id, user_id, storeOk) ==
    LET filter_conditions ==
            IF user_id # None THEN Dict1("user_id", user_id) ELSE EmptyDict
        ids == Range(Query(coll, <<>>, filter_conditions, NUMBER_OF_EXPECTED_MAX_DOCUMENTS))
    IN IF storeOk THEN coll \ ids ELSE coll

\* delete_by_file_id(file_id, user_id=None); never raises
delete_by_file_id(coll, file_id, user_id, storeOk) ==
    LET filter_conditions == delete_by_file_id_where(file_id, user_id)
        ids == Range(Query(coll, <<>>, filter_conditions, NUMBER_OF_EXPECTED_MAX_DOCUMENTS))
    IN IF storeOk THEN coll \ ids ELSE coll

\* delete_by_user_id(user_id); never raises
delete_by_user_id(coll, user_id, storeOk) ==
    LET ids == Range(Query(coll, <<>>, Dict1("user_id", user_id),
                           NUMBER_OF_EXPECTED_MAX_DOCUMENTS))
    IN IF storeOk THEN coll \ ids ELSE coll

\* get_files_by_user(user_id): the file_ids of the tenant's chunks, read
\* through a query capped at the configured maximum; [] when the query fails
get_files_by_user(coll, user_id, storeOk) ==
    LET results == Query(coll, <<>>, Dict1("user_id", user_id),
                         NUMBER_OF_EXPECTED_MAX_DOCUMENTS)
    IN IF storeOk THEN {results[i].file_id : i \in 1..Len(results)} ELSE {}

(* ---------------- KnowledgeBaseIndexer, services revision -------------- *)
\* index_documents(document_paths, document_name, file_id): no user_id
services_index_documents(coll, next, pages, document_name, file_id, addOk) ==
    LET labels == Surviving(pages)
        new == NewChunks(next, pages, document_name, file_id, None)
    IN IF labels = <<>>
       THEN [coll |-> coll, next |-> next, raised |-> FALSE]
       ELSE IF addOk
            THEN [coll |-> coll \cup new, next |-> next + Len(labels), raised |-> FALSE]
            ELSE [coll |-> coll, next |-> next, raised |-> TRUE]

\* one formatted result of the services search: the score is 1 / (1 + dist)
ServicesResult(query, c) ==
    [text |-> c.text, metadata |-> c,
     relevance_score |-> [num |-> 1, den |-> 1 + Distance(query, c.text)]]

\* search(query, n_results=3): no tenant filter; never raises
services_search(coll, query, n_results, storeOk) ==
    LET results == Query(coll, query, EmptyDict, n_results)
    IN IF storeOk
       THEN [i \in 1..Len(results) |-> ServicesResult(query, results[i])]
       ELSE <<>>

\* delete_by_file_id(file_id); never raises
services_delete_by_file_id(coll, file_id, storeOk) ==
    LET ids == Range(Query(coll, <<>>, Dict1("file_id", file_id),
                           NUMBER_OF_EXPECTED_MAX_DOCUMENTS))
    IN IF storeOk THEN coll \ ids ELSE coll

(* ----------------------------- ChatbotService -------------------------- *)
\* ChatbotService.default_model
default_model == "qwen2:0.5b"

\* the content returned when generation fails
Apology == "Sorry, I couldn't generate a response. Please try again later."

\* the message content sent to the generation service
Prompt(context_results, query) ==
    IF context_results # <<>>
    THEN [kind |-> "augmented",
          context |-> [i \in 1..Len(context_results) |->
                          [relevance |-> context_results[i].relevance_score,
                           text |-> context_results[i].text]],
          question |-> query]
    ELSE [kind |-> "raw", context |-> <<>>, question |-> query]

\* self.knowledge_base.search(query, user_id=user_id) on an indexer of class
\* kb.  The services search takes no user_id: the call raises TypeError
\* before the store is reached.
Retrieve(coll, kb, query, user_id, storeOk) ==
    IF kb = "root"
    THEN [raised |-> FALSE, results |-> search(coll, query, user_id, 5, EmptyDict, storeOk)]
    ELSE [raised |-> TRUE, results |-> <<>>]

\* generate_response whose failure path hands back the retrieved context
generate_response_keepContext(coll, kb, query, user_id, model, storeOk, llmOk, completion) ==
    LET model_to_use == IF model # None THEN model ELSE default_model
        retrieval ==
            IF kb # None /\ user_id # None
            THEN Retrieve(coll, kb, query, user_id, storeOk)
            ELSE [raised |-> FALSE, results |-> <<>>]
        context_results == retrieval.results
        prompt == Prompt(context_results, query)
    IN IF retrieval.raised
       THEN [ret |-> [content |-> Apology, ragContext |-> <<>>, model |-> model_to_use],
             raised |-> FALSE, llm_calls |-> <<>>]
       ELSE [ret |-> [content |-> IF llmOk THEN completion ELSE Apology,
                      ragContext |-> context_results, model |-> model_to_use],
             raised |-> FALSE,
             llm_calls |-> <<[model |-> model_to_use, content |-> prompt]>>]

\* generate_response(query, user_id=None, model=None) of a service built on
\* an indexer of class kb (None: no knowledge base).  llmOk says whether
\* llm.chat succeeds, completion is what it then answers.  The result holds
\* the returned dict, whether the call raised, and the calls made to llm.chat.
generate_response(coll, kb, query, user_id, model, storeOk, llmOk, completion) ==
    LET model_to_use == IF model # None THEN model ELSE default_model
        retrieval ==
            IF kb # None /\ user_id # None
            THEN Retrieve(coll, kb, query, user_id, storeOk)
            ELSE [raised |-> FALSE, results |-> <<>>]
        context_results == retrieval.results
        prompt == Prompt(context_results, query)
    IN IF retrieval.raised
       THEN [ret |-> [content |-> Apology, ragContext |-> <<>>,
                      model |-> IF model # None THEN model ELSE default_model],
             raised |-> FALSE, llm_calls |-> <<>>]
       ELSE IF ~llmOk
       THEN [ret |-> [content |-> Apology, ragContext |-> <<>>,
                      model |-> IF model # None THEN model ELSE default_model],
             raised |-> FALSE,
             llm_calls |-> <<[model |-> model_to_use, content |-> prompt]>>]
       ELSE [ret |-> [content |-> completion, ragContext |-> context_results,
                      model |-> model_to_use],
             raised |-> FALSE,
             llm_calls |-> <<[model |-> model_to_use, content |-> prompt]>>]

(* ------------------------------- state -------------------------------- *)
VARIABLES
    kbClass,         \* revision of KnowledgeBaseIndexer that is deployed
    knowledge_base,  \* ChatbotService.knowledge_base: kbClass, or None
    collection,      \* the Chroma collection "documents": a set of chunks
    nextId,          \* next fresh uuid4
    last,            \* the latest call on a service, its arguments and outcome
    registry,        \* the files table: a set of FileRecords
    disk,            \* the upload area: stored files and user directories
    pending,         \* the queued upload-time indexing tasks: their FileRecords
    indexing,        \* the upload-time indexing tasks that are in their try
    job,             \* the reindex background task
    session,         \* a websocket chat session of one client
    accounts         \* the users table, the token source and the mail queue

vars == <<kbClass, knowledge_base, collection, nextId, last, registry, disk,
          pending, indexing, job, session, accounts>>
wiring == <<kbClass, knowledge_base>>
web == <<session, accounts>>
uploadVars == <<registry, disk, pending, indexing>>

DocNames == {"a.pdf"}
NResults == {1, 5}
\* extra filters passed as where_filter
WhereFilters == {EmptyDict, Dict1("user_id", "U2"), Dict1("file_id", "F1")}
Models == {None, "llama3"}
Completions == {"answer"}

\* A FileRecord, with what the stored file holds: readable says whether fitz
\* can open it, content is the text of its pages.
FileRecord(f, u, type, readable, content) ==
    [file_id |-> f, user_id |-> u, filename |-> f, content_type |-> type,
     readable |-> readable, content |-> content]

\* the registry of the index and chat specifications: one PDF per tenant
DefaultRegistry ==
    { FileRecord("F1", "U1", "application/pdf", TRUE, [p \in {"page_1"} |-> TextA]),
      FileRecord("F2", "U2", "application/pdf", TRUE, [p \in {"page_1"} |-> TextA]) }

NoCall ==
    [op |-> "none", file_id |-> None, user_id |-> None, pages |-> EmptyDict,
     query |-> <<>>, where |-> EmptyDict, storeOk |-> TRUE, before |-> {}, result |-> <<>>,
     raised |-> FALSE]

\* no websocket session yet: conversation is the handler's turn log, sent the
\* chat replies that reached the client, history the file the handler wrote
NoSession ==
    [pc |-> "none", user_id |-> None, conversation |-> <<>>, sent |-> <<>>,
     ended_by |-> None, history |-> <<>>, flushed |-> FALSE]

\* an empty users table, the first uuid4 to hand out and an empty mail queue
NoAccounts == [users |-> {}, next_token |-> 1, outbox |-> {}]

\* a run of reindex_all before it starts
NoRun ==
    [pc |-> "idle", user |-> None, files |-> <<>>, i |-> 1,
     processed_count |-> 0, failed_files |-> <<>>, calls |-> <<>>,
     runs |-> 0, foreign_run |-> {}, foreign_gap |-> {}, ends |-> <<>>]

\* the reindex background task, and in other a second run of it that may be
\* under way at the same time
NoJob ==
    [pc |-> "idle", user |-> None, files |-> <<>>, i |-> 1,
     processed_count |-> 0, failed_files |-> <<>>, calls |-> <<>>,
     runs |-> 0, foreign_run |-> {}, foreign_gap |-> {}, ends |-> <<>>,
     other |-> NoRun]

Init ==
    /\ kbClass \in {"root", "services"}
    /\ knowledge_base = kbClass
    /\ collection = {}
    /\ nextId = 1
    /\ last = NoCall
    /\ registry = DefaultRegistry
    /\ disk = [uploads |-> {r.file_id : r \in registry},
               user_dirs |-> {r.user_id : r \in registry}, temp |-> {}, page_files |-> {}]
    /\ pending = {}
    /\ indexing = {}
    /\ job = NoJob
    /\ session = NoSession
    /\ accounts = NoAccounts

\* a direct call of the root index_documents, for a registered file
IndexDocuments ==
    \E pages \in PageMaps, name \in DocNames, rec \in registry, addOk \in BOOLEAN :
      \E u \in {rec.user_id, None} :
        LET f == rec.file_id
            r == index_documents(collection, nextId, pages, name, f, u, addOk)
        IN /\ kbClass = "root"
           /\ r.next <= MaxIds + 1
           /\ collection' = r.coll
           /\ nextId' = r.next
           /\ last' = [NoCall EXCEPT !.op = "index_documents", !.file_id = f,
                          !.user_id = u, !.pages = pages,
                          !.before = collection, !.raised = r.raised]
           /\ UNCHANGED <<wiring, web, uploadVars, job>>

\* a direct call of the root search
Search ==
    \E q \in Queries, u \in Users \cup {None}, n \in NResults,
       w \in WhereFilters, storeOk \in BOOLEAN :
        /\ kbClass = "root"
        /\ last' = [NoCall EXCEPT !.op = "search", !.user_id = u, !.where = w,
                       !.query = q, !.storeOk = storeOk, !.before = collection,
                       !.result = search(collection, q, u, n, w, storeOk)]
        /\ UNCHANGED <<wiring, web, collection, nextId, uploadVars, job>>

\* a direct call of the root delete_by_file_id
DeleteByFileId ==
    \E f \in FileIds, u \in Users \cup {None}, storeOk \in BOOLEAN :
        /\ kbClass = "root"
        /\ collection' = delete_by_file_id(collection, f, u, storeOk)
        /\ last' = [NoCall EXCEPT !.op = "delete_by_file_id", !.file_id = f,
                       !.user_id = u, !.storeOk = storeOk, !.before = collection]
        /\ UNCHANGED <<wiring, web, nextId, uploadVars, job>>

\* a direct call of the root delete_by_user_id
DeleteByUserId ==
    \E u \in Users, storeOk \in BOOLEAN :
        /\ kbClass = "root"
        /\ collection' = delete_by_user_id(collection, u, storeOk)
        /\ last' = [NoCall EXCEPT !.op = "delete_by_user_id", !.user_id = u,
                       !.storeOk = storeOk, !.before = collection]
        /\ UNCHANGED <<wiring, web, nextId, uploadVars, job>>

\* A direct call of the root get_files_by_user.  The record keeps the
\* delete_by_file_id call that came right before it, if one did.
GetFilesByUser ==
    \E u \in Users, storeOk \in BOOLEAN :
        /\ kbClass = "root"
        /\ last' = [op |-> "get_files_by_user", user_id |-> u, storeOk |-> storeOk,
                    result |-> get_files_by_user(collection, u, storeOk),
                    after |-> IF last.op = "delete_by_file_id"
                              THEN [op |-> last.op, file_id |-> last.file_id,
                                    user_id |-> last.user_id, storeOk |-> last.storeOk]
                              ELSE [op |-> "none", file_id |-> None,
                                    user_id |-> None, storeOk |-> TRUE]]
        /\ UNCHANGED <<wiring, web, collection, nextId, uploadVars, job>>

\* a direct call of the services index_documents, for a registered file
ServicesIndexDocuments ==
    \E pages \in PageMaps, name \in DocNames, rec \in registry, addOk \in BOOLEAN :
        LET f == rec.file_id
            r == services_index_documents(collection, nextId, pages, name, f, addOk)
        IN /\ kbClass = "services"
           /\ r.next <= MaxIds + 1
           /\ collection' = r.coll
           /\ nextId' = r.next
           /\ last' = [NoCall EXCEPT !.op = "index_documents", !.file_id = f,
                          !.pages = pages, !.before = collection,
                          !.raised = r.raised]
           /\ UNCHANGED <<wiring, web, uploadVars, job>>

\* a direct call of the services search
ServicesSearch ==
    \E q \in Queries, n \in NResults, storeOk \in BOOLEAN :
        /\ kbClass = "services"
        /\ last' = [NoCall EXCEPT !.op = "search", !.query = q,
                       !.storeOk = storeOk,
                       !.before = collection,
                       !.result = services_search(collection, q, n, storeOk)]
        /\ UNCHANGED <<wiring, web, collection, nextId, uploadVars, job>>

\* a direct call of the services delete_by_file_id
ServicesDeleteByFileId ==
    \E f \in FileIds, storeOk \in BOOLEAN :
        /\ kbClass = "services"
        /\ collection' = services_delete_by_file_id(collection, f, storeOk)
        /\ last' = [NoCall EXCEPT !.op = "delete_by_file_id", !.file_id = f,
                       !.storeOk = storeOk, !.before = collection]
        /\ UNCHANGED <<wiring, web, nextId, uploadVars, job>>

Next ==
    \/ IndexDocuments
    \/ Search
    \/ DeleteByFileId
    \/ DeleteByUserId
    \/ ServicesIndexDocuments
    \/ ServicesSearch
    \/ ServicesDeleteByFileId

Spec == Init /\ [][Next]_vars

(* ------------------------------ chat ---------------------------------- *)
\* how the retrieval step of a generate_response call went
RetrievalStatus(kb, user_id, storeOk) ==
    IF kb = None \/ user_id = None THEN "skipped"
    ELSE IF kb = "services" \/ ~storeOk THEN "failed"
    ELSE "ok"

\* the queries a generate_response call sends to the chunk store, each with
\* its where-filter: the one of search(query, user_id=user_id), when the
\* call gets that far
RetrievalStoreCalls(kb, user_id) ==
    IF kb = "root" /\ user_id # None
    THEN <<[op |-> "query", where |-> search_where(user_id, EmptyDict)]>>
    ELSE <<>>

\* a call of ChatbotService.generate_response
GenerateResponse ==
    \E q \in Queries, u \in Users \cup {None}, m \in Models,
       storeOk \in BOOLEAN, llmOk \in BOOLEAN, completion \in Completions :
        LET r == generate_response(collection, knowledge_base, q, u, m,
                                   storeOk, llmOk, completion)
        IN /\ last' = [op |-> "generate_response", query |-> q, user_id |-> u,
                       model |-> m, llmOk |-> llmOk, completion |-> completion,
                       retrieval |-> RetrievalStatus(knowledge_base, u, storeOk),
                       store_calls |-> RetrievalStoreCalls(knowledge_base, u),
                       ret |-> r.ret, raised |-> r.raised,
                       llm_calls |-> r.llm_calls]
           /\ UNCHANGED <<wiring, web, collection, nextId, uploadVars, job>>

\* a ChatbotService may be built without a knowledge base
InitChat ==
    /\ kbClass \in {"root", "services"}
    /\ knowledge_base \in {kbClass, None}
    /\ collection = {}
    /\ nextId = 1
    /\ last = NoCall
    /\ registry = DefaultRegistry
    /\ disk = [uploads |-> {r.file_id : r \in registry},
               user_dirs |-> {r.user_id : r \in registry}, temp |-> {}, page_files |-> {}]
    /\ pending = {}
    /\ indexing = {}
    /\ job = NoJob
    /\ session = NoSession
    /\ accounts = NoAccounts

NextChat ==
    \/ IndexDocuments
    \/ ServicesIndexDocuments
    \/ GenerateResponse

SpecChat == InitChat /\ [][NextChat]_vars

(* ---------------------------- reindex job ----------------------------- *)
\* reindex runs per behaviour
MaxRuns == 2
\* uuid4 values handed out over a behaviour of the reindex specification
MaxJobIds == 4

\* The extraction step of process_and_index_file and reindex_all: a PDF goes
\* through PDFTextExtractor, anything else through
\* process_document.__wrapped__, which a plain async method does not have, so
\* that branch always ends in RuntimeError("Processing failed: ...").
Extract(rec, uploads) ==
    IF rec.content_type = "application/pdf"
    THEN IF rec.readable /\ rec.file_id \in uploads
         THEN [raised |-> FALSE, pages |-> rec.content]
         ELSE [raised |-> TRUE, pages |-> EmptyDict]
    ELSE [raised |-> TRUE, pages |-> EmptyDict]

\* urllib.parse.unquote; the file names of the model hold no percent escape
unquote(name) == name

\* index_documents(pages, document_name=..., file_id=...) without user_id, on
\* the deployed class
IndexNoUser(cls, coll, next, pages, document_name, file_id, addOk) ==
    IF cls = "root"
    THEN index_documents(coll, next, pages, document_name, file_id, None, addOk)
    ELSE services_index_documents(coll, next, pages, document_name, file_id, addOk)

\* index_documents(pages, filename, file_id, user_id=user_id) on the deployed
\* class; the services index_documents takes no user_id: TypeError
IndexWithUser(cls, coll, next, pages, document_name, file_id, user_id, addOk) ==
    IF cls = "root"
    THEN index_documents(coll, next, pages, document_name, file_id, user_id, addOk)
    ELSE [coll |-> coll, next |-> next, raised |-> TRUE]

\* The working directory of a file: "./temp/reindex_<file_id>" in the reindex
\* job, "./temp/<file_id><ext>" (the stored file's base name) in the
\* upload-time task.
reindex_temp_dir(file_id) == <<"reindex", file_id>>
upload_temp_dir(file_id) == <<"upload", file_id>>

\* os.makedirs(dir, exist_ok=True); ok says whether the file system lets it
makedirs(d, dir, ok) == IF ok THEN [d EXCEPT !.temp = @ \cup {dir}] ELSE d

\* the extractor makes dir if it is missing and writes the page files into it
write_pages(d, dir) ==
    [d EXCEPT !.temp = @ \cup {dir}, !.page_files = @ \cup {dir}]

\* shutil.rmtree(dir, ignore_errors=True)
rmtree(d, dir) == [d EXCEPT !.temp = @ \ {dir}, !.page_files = @ \ {dir}]

\* index_documents opens every page file of the mapping: it can read them
\* when there is none to read or the files are still in dir
PagesReadable(d, dir, pages) == DOMAIN pages = {} \/ dir \in d.page_files

\* an upload-time task inside its try, before or after the extraction
Task(rec, extracted) == [rec |-> rec, extracted |-> extracted]

\* process_and_index_file up to its try: the task queued by upload_file makes
\* its working directory; a failure there ends the task
ProcessAndIndexFileStart ==
    \E rec \in pending, mkdirOk \in BOOLEAN :
        /\ pending' = pending \ {rec}
        /\ disk' = makedirs(disk, upload_temp_dir(rec.file_id), mkdirOk)
        /\ indexing' = IF mkdirOk THEN indexing \cup {Task(rec, FALSE)} ELSE indexing
        /\ UNCHANGED <<wiring, web, collection, nextId, last, registry, job>>

process_and_index_file_try_keepOnError(d, rec, e, r) ==
    LET raised == e.raised \/ r.raised
    IN [disk |-> IF raised THEN d ELSE rmtree(d, upload_temp_dir(rec.file_id)),
        raised |-> raised]

\* the try/finally of process_and_index_file, given the extraction e and the
\* result r of index_documents: the disk after it, and whether the task raised
process_and_index_file_try(d, rec, e, r) ==
    [disk |-> rmtree(d, upload_temp_dir(rec.file_id)),
     raised |-> e.raised \/ r.raised]

\* process_and_index_file, the extraction: the page files are written into
\* the working directory; an exception ends the task through the finally
ProcessAndIndexFileExtract ==
    \E t \in indexing :
        LET rec == t.rec
            e == Extract(rec, disk.uploads)
            none == [coll |-> collection, next |-> nextId, raised |-> FALSE]
        IN /\ ~t.extracted
           /\ IF e.raised
              THEN /\ indexing' = indexing \ {t}
                   /\ disk' = process_and_index_file_try(disk, rec, e, none).disk
              ELSE /\ indexing' = (indexing \ {t}) \cup {Task(rec, TRUE)}
                   /\ disk' = write_pages(disk, upload_temp_dir(rec.file_id))
           /\ UNCHANGED <<wiring, web, collection, nextId, last, registry, pending, job>>

\* process_and_index_file from the index_documents call on: index the
\* extracted pages for the uploading user, clean up
ProcessAndIndexFile ==
    \E t \in indexing, addOk \in BOOLEAN :
        LET rec == t.rec
            e == [raised |-> FALSE, pages |-> rec.content]
            r == IF PagesReadable(disk, upload_temp_dir(rec.file_id), e.pages)
                 THEN IndexWithUser(kbClass, collection, nextId, e.pages,
                                    rec.filename, rec.file_id, rec.user_id, addOk)
                 ELSE [coll |-> collection, next |-> nextId, raised |-> TRUE]
        IN /\ t.extracted
           /\ r.next <= MaxJobIds + 1
           /\ collection' = r.coll
           /\ nextId' = r.next
           /\ indexing' = indexing \ {t}
           /\ disk' = process_and_index_file_try(disk, rec, e, r).disk
           /\ job' = [job EXCEPT !.foreign_run = @ \cup {rec.file_id},
                                 !.foreign_gap = @ \cup {rec.file_id}]
           /\ UNCHANGED <<wiring, web, last, registry, pending>>

\* db.query(FileRecord).filter(FileRecord.user_id == user.id).all(), in
\* table order
FilesOf(recs, u) ==
    LET ids == SelectSeq(FileOrder,
                         LAMBDA f : \E r \in recs : r.file_id = f /\ r.user_id = u)
    IN [i \in 1..Len(ids) |-> CHOOSE r \in recs : r.file_id = ids[i]]

Failure(name, reason) == [filename |-> name, reason |-> reason]

\* reindex_all up to the loop, for run j: it returns at once when the tenant
\* has no upload directory, else it enumerates the tenant's files
reindex_start(j, recs, d, u) ==
    IF u \notin d.user_dirs
    THEN [j EXCEPT !.user = u, !.pc = "idle"]
    ELSE [j EXCEPT !.pc = "running", !.user = u,
                   !.files = FilesOf(recs, u), !.i = 1,
                   !.processed_count = 0, !.failed_files = <<>>,
                   !.calls = <<>>, !.foreign_run = {}]

\* One loop iteration of reindex_all up to its try: a file missing from disk
\* is recorded and skipped; else the working directory is made.  makedirs is
\* outside the try, so its exception leaves reindex_all.
reindex_prepare(j, d, mkdirOk) ==
    LET rec == j.files[j.i]
    IN IF rec.file_id \notin d.uploads
       THEN [job |-> [j EXCEPT !.i = @ + 1,
                         !.failed_files = Append(@, Failure(rec.filename, "File not found"))],
             disk |-> d]
       ELSE IF mkdirOk
       THEN [job |-> [j EXCEPT !.pc = "in_try"],
             disk |-> makedirs(d, reindex_temp_dir(rec.file_id), TRUE)]
       ELSE [job |-> [j EXCEPT !.pc = "aborted", !.runs = @ + 1], disk |-> d]

reindex_try_countFirst(j, d, rec, e, r) ==
    LET call == [op |-> "index_documents", file_id |-> rec.file_id,
                 pages |-> e.pages, raised |-> r.raised]
        failed(jb, reason) ==
            [jb EXCEPT !.failed_files = Append(@, Failure(rec.filename, reason))]
        counted == [j EXCEPT !.calls = Append(@, call), !.processed_count = @ + 1]
        j1 == IF e.raised THEN failed(j, "error")
              ELSE IF DOMAIN e.pages = {} THEN failed(j, "no content extracted")
              ELSE IF r.raised THEN failed(counted, "error")
              ELSE counted
    IN [job |-> [j1 EXCEPT !.pc = "running", !.i = @ + 1],
        disk |-> rmtree(d, reindex_temp_dir(rec.file_id))]

\* The try/except/finally of one loop iteration, given the extraction e and
\* the result r of index_documents: the job's counters, and the disk after
\* the finally.
reindex_try(j, d, rec, e, r) ==
    LET call == [op |-> "index_documents", file_id |-> rec.file_id,
                 pages |-> e.pages, raised |-> r.raised]
        failed(jb, reason) ==
            [jb EXCEPT !.failed_files = Append(@, Failure(rec.filename, reason))]
        j1 == IF e.raised THEN failed(j, "error")
              ELSE IF DOMAIN e.pages = {} THEN failed(j, "no content extracted")
              ELSE IF r.raised
              THEN failed([j EXCEPT !.calls = Append(@, call)], "error")
              ELSE [j EXCEPT !.calls = Append(@, call), !.processed_count = @ + 1]
    IN [job |-> [j1 EXCEPT !.pc = "running", !.i = @ + 1],
        disk |-> rmtree(d, reindex_temp_dir(rec.file_id))]

\* One loop iteration, the extraction: the page files are written into the
\* working directory; an exception or an empty mapping ends the iteration.
reindex_extract(j, d) ==
    LET rec == j.files[j.i]
        e == Extract(rec, d.uploads)
        none == [raised |-> FALSE]
    IN IF e.raised \/ DOMAIN e.pages = {}
       THEN reindex_try(j, d, rec, e, none)
       ELSE [job |-> [j EXCEPT !.pc = "extracted"],
             disk |-> write_pages(d, reindex_temp_dir(rec.file_id))]

\* One loop iteration from the index_documents call on: the extracted pages
\* are indexed without a user_id, the outcome is counted, the working
\* directory removed.
reindex_index(j, d, cls, coll, next, addOk) ==
    LET rec == j.files[j.i]
        e == [raised |-> FALSE, pages |-> rec.content]
        r == IF PagesReadable(d, reindex_temp_dir(rec.file_id), e.pages)
             THEN IndexNoUser(cls, coll, next, e.pages, unquote(rec.filename),
                              rec.file_id, addOk)
             ELSE [coll |-> coll, next |-> next, raised |-> TRUE]
        t == reindex_try(j, d, rec, e, r)
    IN [job |-> t.job, disk |-> t.disk, coll |-> r.coll, next |-> r.next]

\* the end of reindex_all: the completion report.  The run's end state is
\* kept (with the previous run's) in ends.
reindex_finish(j, coll) ==
    LET this == [user |-> j.user,
                 indexed |-> {c.file_id : c \in {d \in Range(j.calls) : ~d.raised}},
                 counts |-> [f \in FileIds |-> Cardinality(ChunksOf(coll, f))],
                 quiet |-> j.foreign_gap = {}]
    IN [j EXCEPT !.pc = "done", !.runs = @ + 1, !.foreign_gap = {},
                 !.ends = IF Len(@) = 2 THEN <<@[2], this>> ELSE Append(@, this)]

ReindexStart ==
    \E u \in Users :
        /\ job.pc \in {"idle", "done", "aborted"}
        /\ job.runs < MaxRuns
        /\ job' = reindex_start(job, registry, disk, u)
        /\ UNCHANGED <<wiring, web, collection, nextId, last, uploadVars>>

ReindexPrepare ==
    \E mkdirOk \in BOOLEAN :
        LET p == reindex_prepare(job, disk, mkdirOk)
        IN /\ job.pc = "running"
           /\ job.i <= Len(job.files)
           /\ job' = p.job
           /\ disk' = p.disk
           /\ UNCHANGED <<wiring, web, collection, nextId, last, registry, pending, indexing>>

ReindexExtract ==
    LET p == reindex_extract(job, disk)
    IN /\ job.pc = "in_try"
       /\ job' = p.job
       /\ disk' = p.disk
       /\ UNCHANGED <<wiring, web, collection, nextId, last, registry, pending, indexing>>

ReindexFile ==
    \E addOk \in BOOLEAN :
        LET p == reindex_index(job, disk, kbClass, collection, nextId, addOk)
        IN /\ job.pc = "extracted"
           /\ p.next <= MaxJobIds + 1
           /\ job' = p.job
           /\ disk' = p.disk
           /\ collection' = p.coll
           /\ nextId' = p.next
           /\ UNCHANGED <<wiring, web, last, registry, pending, indexing>>

ReindexFinish ==
    /\ job.pc = "running"
    /\ job.i > Len(job.files)
    /\ job' = reindex_finish(job, collection)
    /\ UNCHANGED <<wiring, web, collection, nextId, last, uploadVars>>

PdfContents == PageMaps \cup {EmptyDict}
\* the first file: any kind; the second: a one-page PDF or an image
F1Records ==
    {FileRecord("F1", "U1", "application/pdf", TRUE, c) : c \in PdfContents}
    \cup {FileRecord("F1", "U1", "application/pdf", FALSE, EmptyDict),
          FileRecord("F1", "U1", "image/png", TRUE, [p \in {"page_1"} |-> TextA])}
F2Records ==
    {FileRecord("F2", u, "application/pdf", TRUE, [p \in {"page_1"} |-> TextA]) : u \in Users}
    \cup {FileRecord("F2", "U1", "image/png", TRUE, [p \in {"page_1"} |-> TextA])}

\* two uploaded files; the stored file of the first may be gone from disk; the
\* upload-time task of every stored file is still queued
InitReindex ==
    /\ kbClass \in {"root", "services"}
    /\ knowledge_base = kbClass
    /\ collection = {}
    /\ nextId = 1
    /\ last = NoCall
    /\ \E r1 \in F1Records, r2 \in F2Records : registry = {r1, r2}
    /\ \E up \in {{"F1", "F2"}, {"F2"}} :
          /\ disk = [uploads |-> up, user_dirs |-> {r.user_id : r \in registry},
                     temp |-> {}, page_files |-> {}]
          /\ pending = {r \in registry : r.file_id \in up}
    /\ indexing = {}
    /\ job = NoJob
    /\ session = NoSession
    /\ accounts = NoAccounts

NextReindex ==
    \/ ProcessAndIndexFileStart
    \/ ProcessAndIndexFileExtract
    \/ ProcessAndIndexFile
    \/ ReindexStart
    \/ ReindexPrepare
    \/ ReindexExtract
    \/ ReindexFile
    \/ ReindexFinish

SpecReindex == InitReindex /\ [][NextReindex]_vars

(* --------------------------- file endpoints --------------------------- *)
\* n_results of the query in get_file_tags
TagLookupMaxResults == 1000

get_file_by_id_anyOwner(recs, file_id, user_id) ==
    {r \in recs : r.file_id = file_id}

\* get_file_by_id: the records of the file that belong to the user
get_file_by_id(recs, file_id, user_id) ==
    {r \in recs : r.file_id = file_id /\ r.user_id = user_id}

\* kb_indexer.delete_by_file_id(file_id) on the deployed class
DeleteNoUser(cls, coll, file_id, storeOk) ==
    IF cls = "root"
    THEN delete_by_file_id(coll, file_id, None, storeOk)
    ELSE services_delete_by_file_id(coll, file_id, storeOk)

\* DELETE /files/{file_id} by user u: 404 unless the user owns the file; else
\* the stored file and the record go, then the file's chunks are deleted
\* from the index by file_id.  store_calls holds the query that selects the
\* chunks to delete, with its where-filter.
DeleteFile ==
    \E f \in FileIds, u \in Users, storeOk \in BOOLEAN :
        LET found == get_file_by_id(registry, f, u)
        IN IF found = {}
           THEN /\ last' = [op |-> "delete_file", file_id |-> f, user_id |-> u,
                            storeOk |-> storeOk, before |-> collection,
                            status |-> 404, store_calls |-> <<>>,
                            registry_before |-> registry,
                            uploads_before |-> disk.uploads,
                            after |-> collection, registry_after |-> registry,
                            uploads_after |-> disk.uploads]
                /\ UNCHANGED <<wiring, web, collection, nextId, uploadVars, job>>
           ELSE /\ registry' = registry \ found
                /\ disk' = [disk EXCEPT !.uploads = @ \ {f}]
                /\ collection' = DeleteNoUser(kbClass, collection, f, storeOk)
                /\ last' = [op |-> "delete_file", file_id |-> f, user_id |-> u,
                            storeOk |-> storeOk, before |-> collection,
                            status |-> 200,
                            store_calls |->
                                <<[op |-> "query",
                                   where |-> delete_by_file_id_where(f, None)]>>,
                            registry_before |-> registry,
                            uploads_before |-> disk.uploads,
                            after |-> collection', registry_after |-> registry',
                            uploads_after |-> disk'.uploads]
                /\ UNCHANGED <<wiring, web, nextId, pending, indexing, job>>

\* GET /files/{file_id}/tags by user u: the tags of the chunks the store
\* returns for the file_id; 500 when the query fails
GetFileTags ==
    \E f \in FileIds, u \in Users, storeOk \in BOOLEAN :
        LET where == Dict1("file_id", f)
            results == Query(collection, <<>>, where, TagLookupMaxResults)
            tags == UNION {ChunkTags(kbClass, results[i]) : i \in 1..Len(results)}
        IN /\ last' = [op |-> "get_file_tags", file_id |-> f, user_id |-> u,
                       storeOk |-> storeOk, before |-> collection,
                       status |-> IF storeOk THEN 200 ELSE 500,
                       result |-> IF storeOk THEN tags ELSE {},
                       store_calls |-> <<[op |-> "query", where |-> where]>>]
           /\ UNCHANGED <<wiring, web, collection, nextId, uploadVars, job>>

\* the index once both registered files were indexed by the deployed class,
\* each for its owner: the root class records the owner, the services class
\* has no parameter for it
IndexedBoth(cls, p1, p2) ==
    LET a == IF cls = "root"
             THEN index_documents({}, 1, p1, "a.pdf", "F1", "U1", TRUE)
             ELSE services_index_documents({}, 1, p1, "a.pdf", "F1", TRUE)
    IN IF cls = "root"
       THEN index_documents(a.coll, a.next, p2, "a.pdf", "F2", "U2", TRUE)
       ELSE services_index_documents(a.coll, a.next, p2, "a.pdf", "F2", TRUE)

\* both tenants have uploaded and indexed their file
InitFiles ==
    /\ kbClass \in {"root", "services"}
    /\ knowledge_base = kbClass
    /\ \E p1 \in PageMaps, p2 \in PageMaps :
          /\ collection = IndexedBoth(kbClass, p1, p2).coll
          /\ nextId = IndexedBoth(kbClass, p1, p2).next
    /\ last = NoCall
    /\ registry = DefaultRegistry
    /\ disk = [uploads |-> {r.file_id : r \in registry},
               user_dirs |-> {r.user_id : r \in registry}, temp |-> {}, page_files |-> {}]
    /\ pending = {}
    /\ indexing = {}
    /\ job = NoJob
    /\ session = NoSession
    /\ accounts = NoAccounts

NextFiles ==
    \/ DeleteFile
    \/ GetFileTags
    \/ GenerateResponse

SpecFiles == InitFiles /\ [][NextFiles]_vars

\* the root indexer's file listing, after index and delete calls
InitListing ==
    /\ Init
    /\ kbClass = "root"

NextListing ==
    \/ IndexDocuments
    \/ DeleteByFileId
    \/ GetFilesByUser

SpecListing == InitListing /\ [][NextListing]_vars

(* ------------------------------ tagging ------------------------------- *)
\* words a tagged text is made of: two long words, a common word, a short
\* word and a word with capitals
TagWords ==
    { <<"a", "b", "a", "b">>,
      <<"b", "a", "b", "a">>,
      <<"t", "h", "a", "t">>,
      <<"a", "b">>,
      <<"A", "B", "a", "b">> }

\* words per tagged text
MaxWords == 2

\* the words of ws joined by single spaces
RECURSIVE Join(_)
Join(ws) ==
    IF ws = <<>> THEN <<>>
    ELSE IF Len(ws) = 1 THEN ws[1]
    ELSE ws[1] \o <<" ">> \o Join(Tail(ws))

\* a text of eleven distinct long words
ElevenWords ==
    Join(<< <<"a", "a", "a", "a">>,
           <<"a", "a", "a", "b">>,
           <<"a", "a", "b", "a">>,
           <<"a", "a", "b", "b">>,
           <<"a", "b", "a", "a">>,
           <<"a", "b", "a", "b">>,
           <<"a", "b", "b", "a">>,
           <<"a", "b", "b", "b">>,
           <<"b", "a", "a", "a">>,
           <<"b", "a", "a", "b">>,
           <<"b", "a", "b", "a">> >>)

\* the texts generate_tags is applied to
TagTexts ==
    {Join(ws) : ws \in UNION {[1..n -> TagWords] : n \in 0..MaxWords}}
    \cup {Join(<<a, b>>) \o <<"\n">> \o c : a \in TagWords, b \in TagWords, c \in TagWords}
    \cup {ElevenWords}

\* a call of generate_tags on the deployed class
GenerateTags ==
    \E text \in TagTexts :
      \E tags \in IF kbClass = "root" THEN generate_tags_returns(text)
                  ELSE {services_generate_tags(text)} :
        /\ last' = [op |-> "generate_tags", text |-> text, result |-> tags]
        /\ UNCHANGED <<wiring, web, collection, nextId, uploadVars, job>>

NextTags == GenerateTags

SpecTags == Init /\ [][NextTags]_vars

(* ------------------------------ claims -------------------------------- *)
\* C1: a search scoped to tenant A (no extra filters) returns no chunk whose
\* stored user_id is another tenant's, whatever was indexed and deleted
\* before and whatever the query and max_results.
C1_TenantIsolation ==
    (last.op = "search" /\ last.user_id # None /\ DOMAIN last.where = {}) =>
        \A i \in 1..Len(last.result) :
            /\ last.result[i].metadata \in last.before
            /\ last.result[i].metadata.user_id \notin Users \ {last.user_id}

\* C1 witness: tenant U1 searched and got a result while U2 has chunks stored
C1_Witness ==
    /\ last.op = "search" /\ last.user_id = "U1" /\ DOMAIN last.where = {}
    /\ Len(last.result) >= 1
    /\ \E c \in collection : c.user_id = "U2"

\* C2: with any extra filters, also ones holding a user_id key, every result
\* of a tenant-scoped search has stored user_id equal to the tenant asked for.
C2_FiltersOnlyNarrow ==
    (last.op = "search" /\ last.user_id # None) =>
        \A i \in 1..Len(last.result) :
            last.result[i].metadata.user_id = last.user_id

\* C5: after a delete_by_file_id(F) whose store calls succeeded, no chunk with
\* file_id F remains, however many chunks F had.
C5_DeleteRemovesAll ==
    (last.op = "delete_by_file_id" /\ last.storeOk /\ last.user_id = None) =>
        ChunksOf(collection, last.file_id) = {}

\* delete_by_file_id on the deployed class
DeleteOn(cls, coll, file_id, user_id, storeOk) ==
    IF cls = "root" THEN delete_by_file_id(coll, file_id, user_id, storeOk)
    ELSE services_delete_by_file_id(coll, file_id, storeOk)

\* C6: delete_by_file_id(F) for an F with no chunk in the index leaves the
\* chunk set and count unchanged and raises nothing, and a second call in a
\* row changes nothing either.
C6_DeleteAbsentNoOp ==
    (last.op = "delete_by_file_id" /\ ChunksOf(last.before, last.file_id) = {}) =>
        /\ collection = last.before
        /\ Cardinality(collection) = Cardinality(last.before)
        /\ ~last.raised
        /\ \A ok \in BOOLEAN :
              DeleteOn(kbClass, collection, last.file_id, last.user_id, ok) = collection

\* C6 witness: an absent file_id was deleted from a non-empty index
C6_Witness ==
    /\ last.op = "delete_by_file_id" /\ last.storeOk
    /\ ChunksOf(last.before, last.file_id) = {}
    /\ last.before # {}

\* pages of a mapping whose text is non-empty after stripping whitespace
NonBlank(pages) == {p \in DOMAIN pages : strip(pages[p]) # <<>>}

\* C7: an index_documents call that returns adds exactly one chunk per page
\* that is non-empty after stripping and none for a whitespace-only page; when
\* every page is whitespace-only the chunk count is unchanged and the call
\* does not raise.
C7_OneChunkPerPage ==
    (last.op = "index_documents") =>
        LET added == collection \ last.before
        IN /\ ~last.raised =>
                /\ Cardinality(added) = Cardinality(NonBlank(last.pages))
                /\ \A p \in NonBlank(last.pages) :
                      Cardinality({c \in added : c.page = p}) = 1
                /\ \A c \in added :
                      /\ c.page \in NonBlank(last.pages)
                      /\ c.text = strip(last.pages[c.page])
                      /\ c.text # <<>>
                      /\ c.file_id = last.file_id
           /\ NonBlank(last.pages) = {} =>
                /\ Cardinality(collection) = Cardinality(last.before)
                /\ ~last.raised

\* C7 witness: a mapping with one blank and one non-blank page was indexed
C7_Witness ==
    /\ last.op = "index_documents" /\ ~last.raised
    /\ NonBlank(last.pages) # {}
    /\ NonBlank(last.pages) # DOMAIN last.pages
    /\ Cardinality(collection \ last.before) = 1

\* C8: every chunk present before an index_documents call is still present,
\* unmodified, after it.
C8_IndexAdditive ==
    (last.op = "index_documents") => last.before \subseteq collection

\* C8 witness: a file that already had chunks was indexed again
C8_Witness ==
    /\ last.op = "index_documents"
    /\ ChunksOf(last.before, last.file_id) # {}
    /\ collection # last.before

\* the generation service was called and raised
LlmRaised == Len(last.llm_calls) = 1 /\ ~last.llmOk

\* C9: when the generation-service call raises inside generate_response, the
\* call returns the non-empty apology content, an empty ragContext and the
\* model attempted (the given one, or the default), and raises nothing.
C9_GenerationFailSoft ==
    (last.op = "generate_response" /\ LlmRaised) =>
        /\ last.ret.content = Apology
        /\ last.ret.content # ""
        /\ last.ret.ragContext = <<>>
        /\ last.ret.model = (IF last.model # None THEN last.model ELSE default_model)
        /\ last.llm_calls[1].model = last.ret.model
        /\ ~last.raised

\* C9 witness: the generation service raised after retrieval found context
C9_Witness ==
    /\ last.op = "generate_response" /\ LlmRaised
    /\ last.llm_calls[1].content.kind = "augmented"
    /\ last.model = None

\* C10: when the retrieval step fails and the generation service is healthy,
\* the service is called with the raw query and the caller gets its
\* completion with an empty ragContext.
C10_RetrievalFailSoft ==
    (last.op = "generate_response" /\ last.retrieval = "failed" /\ last.llmOk) =>
        /\ Len(last.llm_calls) = 1
        /\ last.llm_calls[1].content = Prompt(<<>>, last.query)
        /\ last.ret.content = last.completion
        /\ last.ret.ragContext = <<>>

\* C3: two reindex runs of a tenant with nothing changed in between leave
\* the chunk count of every file they indexed equal at the end of run 1 and
\* of run 2, and after a reindex of F the chunks of F are those of the latest
\* extraction only.
C3_ReindexIdempotent ==
    /\ \A f \in FileIds :
          ( /\ Len(job.ends) = 2
            /\ job.ends[2].quiet
            /\ job.ends[1].user = job.ends[2].user
            /\ f \in job.ends[1].indexed \cap job.ends[2].indexed )
          => job.ends[1].counts[f] = job.ends[2].counts[f]
    /\ \A i \in 1..Len(job.calls) :
          (~job.calls[i].raised /\ job.calls[i].file_id \notin job.foreign_run)
          => Cardinality(ChunksOf(collection, job.calls[i].file_id))
                = Len(Surviving(job.calls[i].pages))

\* C4: in a reindex run, every index_documents call for a file_id comes
\* after a delete_by_file_id call for that file_id.
C4_DeleteBeforeIndex ==
    \A i \in 1..Len(job.calls) :
        job.calls[i].op = "index_documents" =>
            \E j \in 1..(i - 1) :
                /\ job.calls[j].op = "delete_by_file_id"
                /\ job.calls[j].file_id = job.calls[i].file_id


\* C14: one bad file never aborts the reindex batch: when a run of the job
\* has ended, by its completion report or by an exception, every file it
\* enumerated was attempted.
C14_BadFileNeverAborts ==
    job.pc \in {"done", "aborted"} => job.i > Len(job.files)

\* the successful index_documents calls of the run, per file
ProcessedOf(f) == {i \in DOMAIN job.calls : job.calls[i].file_id = f /\ ~job.calls[i].raised}
\* the failed_files entries of the run, per file name
FailuresOf(name) == {i \in DOMAIN job.failed_files : job.failed_files[i].filename = name}

\* C15: when a run of the reindex job completes, every enumerated file is
\* accounted for exactly once, as processed or by one failed_files entry, so
\* processed_count + |failed_files| is the number of enumerated files.
C15_EveryFileAccounted ==
    job.pc = "done" =>
        /\ job.processed_count + Len(job.failed_files) = Len(job.files)
        /\ \A k \in DOMAIN job.files :
              Cardinality(ProcessedOf(job.files[k].file_id))
                + Cardinality(FailuresOf(job.files[k].filename)) = 1

C15_Witness ==
    /\ job.pc = "done"
    /\ job.processed_count >= 1
    /\ Len(job.failed_files) >= 1

\* C16: a file's working directory exists only while the reindex job or the
\* upload-time task is inside the try that handles that file; once the file
\* is handled, by success, recorded failure or exception, it is gone.
C16_TempReleased ==
    \A d \in disk.temp :
        /\ d[1] = "reindex" =>
              /\ job.pc \in {"in_try", "extracted"}
              /\ job.files[job.i].file_id = d[2]
        /\ d[1] = "upload" => d[2] \in {t.rec.file_id : t \in indexing}

C16_Witness ==
    /\ job.pc \in {"running", "done"}
    /\ \E i \in DOMAIN job.failed_files :
          /\ job.failed_files[i].reason = "error"
          /\ reindex_temp_dir(job.failed_files[i].filename) \notin disk.temp
    /\ \E f \in FileIds :
          f \notin {r.file_id : r \in pending} \cup {t.rec.file_id : t \in indexing}
    /\ disk.temp = {}

\* C17: every chunk in the index carries one owning file_id and one owning
\* user_id, whether the upload-time task or the reindex job wrote it.
C17_ChunkHasOwner ==
    \A c \in collection : c.file_id \in FileIds /\ c.user_id \in Users

\* C11: search is fail-soft: when the similarity-store query fails, search
\* returns the empty sequence, raises nothing and leaves the index as it was.
C11_SearchFailSoft ==
    (last.op = "search" /\ ~last.storeOk) =>
        /\ last.result = <<>>
        /\ ~last.raised
        /\ collection = last.before

C11_Witness ==
    /\ last.op = "search"
    /\ ~last.storeOk
    /\ last.result = <<>>
    /\ \E c \in collection : last.user_id \in {None, c.user_id}

\* the chunks a tenant owns
OwnedBy(coll, u) == {c \in coll : c.user_id = u}

C13_DeletedFileNotListed ==
    (/\ last.op = "get_files_by_user"
     /\ last.storeOk
     /\ last.after.op = "delete_by_file_id"
     /\ last.after.storeOk
     /\ last.after.user_id \in {None, last.user_id}) =>
        last.after.file_id \notin last.result

\* the distance the store reported for the i-th result of the latest search
ResultDistance(i) == Distance(last.query, last.result[i].text)
\* score a >= score b, for scores kept as num/den with den > 0
ScoreGeq(a, b) == a.num * b.den >= b.num * a.den

\* C19: the relevance_score of every search result lies in (0,1] and is
\* monotonically non-increasing in the distance: of two results, the one with
\* the smaller or equal distance has the greater or equal score.
C19_ScoreMonotoneInUnitInterval ==
    last.op = "search" =>
        /\ \A i \in DOMAIN last.result :
              LET s == last.result[i].relevance_score
              IN 0 < s.num /\ s.num <= s.den
        /\ \A i, j \in DOMAIN last.result :
              ResultDistance(i) <= ResultDistance(j) =>
                 ScoreGeq(last.result[i].relevance_score,
                          last.result[j].relevance_score)

\* C20: search returns its results highest relevance first: the
\* relevance_score values are non-increasing from first to last.
C20_HighestRelevanceFirst ==
    last.op = "search" =>
        \A i, j \in DOMAIN last.result :
            i < j => ScoreGeq(last.result[i].relevance_score,
                              last.result[j].relevance_score)

\* C18: every query a tenant's request sends to the shared chunk store (the
\* search of a chat turn, the chunk selection of a file removal, the tag
\* lookup of a file) carries that tenant's user_id in its where-filter.
C18_StoreCallsCarryTenant ==
    last.op \in {"generate_response", "delete_file", "get_file_tags"} =>
        \A i \in DOMAIN last.store_calls :
            /\ "user_id" \in DOMAIN last.store_calls[i].where
            /\ last.store_calls[i].where["user_id"] = last.user_id

\* the tokens of a text that survive the filter of generate_tags
Survivors(text) ==
    {w \in Range(split(lower(text))) : Len(w) > 3 /\ w \notin StopWords}

\* C21: generate_tags returns at most 10 distinct lowercase tokens of the
\* text, each longer than 3 characters and none a common word, and never
\* none; when no token survives the filter it returns exactly
\* {"document", "text"}.
C21_TagsContract ==
    last.op = "generate_tags" =>
        IF Survivors(last.text) = {}
        THEN last.result = {<<"d", "o", "c", "u", "m", "e", "n", "t">>,
                            <<"t", "e", "x", "t">>}
        ELSE /\ last.result # {}
             /\ Cardinality(last.result) <= 10
             /\ last.result \subseteq Survivors(last.text)
             /\ \A t \in last.result : lower(t) = t

\* C26: a registered file of an allowed non-PDF type whose stored file
\* exists and whose content the generic extractor can turn into at least one
\* page is handed to index_documents by a completed reindex run, not recorded
\* as failed.
C26_NonPdfProcessed ==
    job.pc = "done" =>
        \A i \in DOMAIN job.files :
            LET rec == job.files[i]
            IN (/\ rec.content_type # "application/pdf"
                /\ rec.readable
                /\ rec.file_id \in disk.uploads
                /\ DOMAIN rec.content # {})
               => /\ \E k \in DOMAIN job.calls : job.calls[k].file_id = rec.file_id
                  /\ \A k \in DOMAIN job.failed_files :
                        job.failed_files[k].filename # rec.filename

\* ---------------------------------------------------------------------------
\* Uploads: AdvancedIngestionService.upload_file and the POST /files endpoint
\* ---------------------------------------------------------------------------

\* settings.MAX_FILE_SIZE_MB
MAX_FILE_SIZE_MB == 5

\* the keys of AdvancedIngestionService.allowed_types
allowed_types ==
    {"application/pdf", "image/png", "image/jpeg", "image/jpg",
     "application/vnd.openxmlformats-officedocument.spreadsheetml.sheet",
     "application/vnd.ms-excel"}

\* the content types and sizes (in bytes, as file.tell() reports them after
\* seek(0, 2)) a client may send
ContentTypes == {"application/pdf", "image/png", "text/plain"}
Sizes ==
    {MAX_FILE_SIZE_MB * 1024 * 1024 - 1, MAX_FILE_SIZE_MB * 1024 * 1024,
     MAX_FILE_SIZE_MB * 1024 * 1024 + 1}

upload_file_validate_geq(content_type, size) ==
    IF content_type \notin allowed_types
    THEN [status |-> 400, detail |-> "Invalid file type"]
    ELSE IF size >= MAX_FILE_SIZE_MB * 1024 * 1024
    THEN [status |-> 400, detail |-> "File exceeds limit"]
    ELSE [status |-> 200, detail |-> ""]

\* the two checks at the head of upload_file: what they raise, if anything
upload_file_validate(content_type, size) ==
    IF content_type \notin allowed_types
    THEN [status |-> 400, detail |-> "Invalid file type"]
    ELSE IF size > MAX_FILE_SIZE_MB * 1024 * 1024
    THEN [status |-> 400, detail |-> "File exceeds limit"]
    ELSE [status |-> 200, detail |-> ""]

\* what an upload can change: the registry, the stored files, the user
\* directories and the queued indexing tasks
UploadView(recs, d, tasks) ==
    [registry |-> recs, uploads |-> d.uploads, user_dirs |-> d.user_dirs,
     scheduled |-> tasks]

\* str(uuid.uuid4()): an id no file has yet
FreshFileIds(recs, d) == FileIds \ ({r.file_id : r \in recs} \cup d.uploads)

\* POST /files: service.upload_file validates, makes the user's directory and
\* writes the file under a fresh id; the endpoint then commits the FileRecord
\* and queues process_and_index_file.  An HTTPException of the validation
\* leaves the endpoint before any of that.
UploadFile ==
    \E u \in Users, content_type \in ContentTypes, size \in Sizes :
        LET v == upload_file_validate(content_type, size)
            content == [p \in {"page_1"} |-> TextA]
            before == UploadView(registry, disk, pending)
        IN IF v.status = 400
           THEN /\ last' = [op |-> "upload_file", user_id |-> u,
                            content_type |-> content_type, size |-> size,
                            status |-> 400, detail |-> v.detail,
                            before |-> before, after |-> before]
                /\ UNCHANGED <<wiring, web, collection, nextId, uploadVars, job>>
           ELSE \E f \in FreshFileIds(registry, disk) :
                    LET rec == FileRecord(f, u, content_type, TRUE, content)
                    IN /\ disk' = [disk EXCEPT !.uploads = @ \cup {f},
                                               !.user_dirs = @ \cup {u}]
                       /\ registry' = registry \cup {rec}
                       /\ pending' = pending \cup {rec}
                       /\ last' = [op |-> "upload_file", user_id |-> u,
                                   content_type |-> content_type, size |-> size,
                                   status |-> 200, detail |-> v.detail,
                                   before |-> before,
                                   after |-> UploadView(registry', disk', pending')]
                       /\ UNCHANGED <<wiring, web, collection, nextId, indexing, job>>

\* a fresh deployment: nothing uploaded, nothing indexed
InitUpload ==
    /\ kbClass \in {"root", "services"}
    /\ knowledge_base = kbClass
    /\ collection = {}
    /\ nextId = 1
    /\ last = NoCall
    /\ registry = {}
    /\ disk = [uploads |-> {}, user_dirs |-> {}, temp |-> {}, page_files |-> {}]
    /\ pending = {}
    /\ indexing = {}
    /\ job = NoJob
    /\ session = NoSession
    /\ accounts = NoAccounts

NextUpload ==
    \/ UploadFile
    \/ ProcessAndIndexFileStart
    \/ ProcessAndIndexFileExtract
    \/ ProcessAndIndexFile

SpecUpload == InitUpload /\ [][NextUpload]_vars

\* C22: upload_file with a content type outside the allow-list, or a size
\* above the ceiling, answers 400 and leaves the stored files, the registry
\* and the queued indexing tasks as they were; a file of an allowed type whose
\* size is exactly the ceiling is accepted, stored, registered and queued.
C22_UploadValidation ==
    last.op = "upload_file" =>
        /\ (last.content_type \notin allowed_types
                \/ last.size > MAX_FILE_SIZE_MB * 1024 * 1024)
           => /\ last.status = 400
              /\ last.after = last.before
        /\ (last.content_type \in allowed_types
                /\ last.size = MAX_FILE_SIZE_MB * 1024 * 1024
                /\ FreshFileIds(last.before.registry,
                                [uploads |-> last.before.uploads]) # {})
           => /\ last.status = 200
              /\ Cardinality(last.after.registry) = Cardinality(last.before.registry) + 1
              /\ Cardinality(last.after.scheduled) = Cardinality(last.before.scheduled) + 1

\* an oversized file of an allowed type is refused after an earlier upload
\* was stored
C22_Witness ==
    /\ last.op = "upload_file"
    /\ last.status = 400
    /\ last.content_type \in allowed_types
    /\ last.size = MAX_FILE_SIZE_MB * 1024 * 1024 + 1
    /\ last.before.registry # {}

\* C25: when DELETE /files/{file_id} answers success for file F, the registry
\* holds no FileRecord for F and the index holds no chunk of F.
C25_DeleteSuccessMeansGone ==
    (last.op = "delete_file" /\ last.status = 200) =>
        /\ \A r \in last.registry_after : r.file_id # last.file_id
        /\ ChunksOf(last.after, last.file_id) = {}

\* C30: a delete request by one tenant naming a file another tenant owns is
\* answered 404 and leaves the registry, the stored files and the index as
\* they were.
C30_ForeignDeleteRefused ==
    (/\ last.op = "delete_file"
     /\ \E r \in last.registry_before :
           r.file_id = last.file_id /\ r.user_id # last.user_id)
    => /\ last.status = 404
       /\ last.registry_after = last.registry_before
       /\ last.uploads_after = last.uploads_before
       /\ last.after = last.before

\* tenant A named a stored, indexed file of tenant B and got not-found
C30_Witness ==
    /\ last.op = "delete_file"
    /\ last.status = 404
    /\ \E r \in last.registry_before :
          /\ r.file_id = last.file_id
          /\ r.user_id # last.user_id
          /\ r.file_id \in last.uploads_before
    /\ ChunksOf(last.before, last.file_id) # {}

\* ---------------------------------------------------------------------------
\* AdvancedIngestionService.process_document, in its two revisions
\* ---------------------------------------------------------------------------

\* tempfile.mkdtemp() / tempfile.TemporaryDirectory(): the directory made for
\* one call
process_temp_dir == <<"process", "tmp">>

\* the page texts a document may hold
DocumentTexts == {<<>>, <<TextA>>, <<TextB>>, <<TextA, TextB>>, <<TextB, TextA>>}

\* what a call of process_document ends with: returned normally, raised an
\* HTTPException with a status and a detail, or raised something else
Returned(texts, d, extraction) ==
    [raised |-> "none", status |-> 200, detail |-> "", pages |-> texts,
     disk |-> d, extraction |-> extraction]
RaisedHTTP(status, detail, d, extraction) ==
    [raised |-> "HTTPException", status |-> status, detail |-> detail,
     pages |-> <<>>, disk |-> d, extraction |-> extraction]
RaisedOther(d, extraction) ==
    [raised |-> "OSError", status |-> 0, detail |-> "", pages |-> <<>>,
     disk |-> d, extraction |-> extraction]

process_document_noExcept(variant, d, file_type, readable, extractorOk, written, texts) ==
    IF file_type \notin allowed_types
    THEN RaisedHTTP(400, "Unsupported file type for processing.", d, "not_run")
    ELSE IF variant = "backend"
    THEN IF ~readable
         THEN RaisedOther(d, IF file_type = "application/pdf" THEN "raised" ELSE "not_run")
         ELSE IF ~extractorOk
         THEN RaisedOther(d, "raised")
         ELSE Returned(texts, d, "ok")
    ELSE IF ~readable
         THEN RaisedOther(d, "not_run")
         ELSE IF ~extractorOk
         THEN RaisedOther(d, "raised")
         ELSE Returned(texts, d, "ok")

\* process_document(file_path, file_type).  readable: the source file can be
\* opened; extractorOk: the page extractor or the directory loader runs to
\* its end; written: the pages the extractor had produced when it raised.
\* backend: mkdtemp, then everything (for a PDF the extractor opening the
\* source itself, else the copy of the source and the loader) inside
\* try / except Exception -> HTTPException(500) / finally rmtree.
\* app: the copy of the source is made inside the TemporaryDirectory block
\* but before the try; only the loader is inside try / except -> 500.
process_document(variant, d, file_type, readable, extractorOk, written, texts) ==
    LET during == makedirs(d, process_temp_dir, TRUE)
        after == rmtree(IF written > 0 THEN write_pages(during, process_temp_dir)
                        ELSE during,
                        process_temp_dir)
        error == RaisedHTTP(500, "Error processing document: ", after, "raised")
    IN IF file_type \notin allowed_types
       THEN RaisedHTTP(400, "Unsupported file type for processing.", d, "not_run")
       ELSE IF variant = "backend"
       THEN IF ~readable
            THEN IF file_type = "application/pdf"
                 THEN error
                 ELSE RaisedHTTP(500, "Error processing document: ", after, "not_run")
            ELSE IF ~extractorOk
            THEN error
            ELSE Returned(texts, after, "ok")
       ELSE IF ~readable
            THEN RaisedOther(after, "not_run")
            ELSE IF ~extractorOk
            THEN error
            ELSE Returned(texts, after, "ok")

ProcessDocument ==
    \E variant \in {"backend", "app"}, file_type \in ContentTypes,
       readable \in BOOLEAN, extractorOk \in BOOLEAN, texts \in DocumentTexts :
        \E written \in 0..Len(texts) :
            LET r == process_document(variant, disk, file_type, readable,
                                      extractorOk, written, texts)
            IN /\ extractorOk => written = Len(texts)
               /\ disk' = r.disk
               /\ last' = [op |-> "process_document", variant |-> variant,
                           file_type |-> file_type, readable |-> readable,
                           extractorOk |-> extractorOk, written |-> written,
                           texts |-> texts, temp_before |-> disk.temp,
                           raised |-> r.raised, status |-> r.status,
                           detail |-> r.detail, pages |-> r.pages,
                           extraction |-> r.extraction, temp_after |-> r.disk.temp]
               /\ UNCHANGED <<wiring, web, collection, nextId, registry, pending,
                              indexing, job>>

NextProcess == ProcessDocument

SpecProcess == Init /\ [][NextProcess]_vars

\* C23: when the extraction inside process_document raises, the caller gets
\* an HTTPException with status 500 and a detail that starts with "Error
\* processing document", no page is returned, and the temporary directory of
\* the call is gone; a type outside the allow-list gets status 400.
C23_ExtractionErrorIs500 ==
    last.op = "process_document" =>
        /\ last.extraction = "raised" =>
              /\ last.raised = "HTTPException"
              /\ last.status = 500
              /\ last.detail = "Error processing document: "
              /\ last.pages = <<>>
              /\ last.temp_after = last.temp_before
        /\ last.file_type \notin allowed_types =>
              /\ last.raised = "HTTPException"
              /\ last.status = 400

\* the extractor raised after it had produced a page
C23_Witness ==
    /\ last.op = "process_document"
    /\ last.extraction = "raised"
    /\ last.readable
    /\ last.written > 0
    /\ last.status = 500

\* ---------------------------------------------------------------------------
\* websocket_chat: one interactive chat session
\* ---------------------------------------------------------------------------

\* turns of one session
MaxTurns == 2

\* the contents generate_response may return
Responses == {"answer", Apology}

\* one entry of the turn log (its timestamp left out)
Turn(query, content) == [user_message |-> query, bot_response |-> content]

\* await websocket.accept(); conversation = []
websocket_accept(u) == [NoSession EXCEPT !.pc = "open", !.user_id = u]

\* the finally block: json.dump(conversation) into the user's history
\* directory
websocket_flush(s, how) ==
    [s EXCEPT !.pc = "closed", !.ended_by = how,
              !.history = s.conversation, !.flushed = TRUE]

\* the handler for any exception that is not a disconnect: it reports the
\* error to the client, which may itself raise; the finally block follows
websocket_error(s, errSendOk) ==
    websocket_flush(s, IF errSendOk THEN "error" ELSE "error_unreported")

websocket_turn_appendFirst(s, recv, query, genOk, content, send, errSendOk) ==
    LET logged == [s EXCEPT !.conversation = Append(@, Turn(query, content))]
    IN IF recv = "disconnect" THEN websocket_flush(s, "disconnect")
       ELSE IF recv = "error" \/ ~genOk THEN websocket_error(s, errSendOk)
       ELSE IF send = "disconnect" THEN websocket_flush(logged, "disconnect")
       ELSE IF send = "error" THEN websocket_error(logged, errSendOk)
       ELSE [logged EXCEPT !.sent = Append(@, [query |-> query, content |-> content])]

\* One pass of the while loop, with what ends it.  recv: receive_json
\* returns a message, raises WebSocketDisconnect, or raises something else
\* (a frame that is not JSON, a payload without .get); genOk: whether
\* generate_response returns; send: the outcome of send_json for the reply.
\* The turn is appended to the log after send_json returned.
websocket_turn(s, recv, query, genOk, content, send, errSendOk) ==
    IF recv = "disconnect" THEN websocket_flush(s, "disconnect")
    ELSE IF recv = "error" \/ ~genOk THEN websocket_error(s, errSendOk)
    ELSE IF send = "disconnect" THEN websocket_flush(s, "disconnect")
    ELSE IF send = "error" THEN websocket_error(s, errSendOk)
    ELSE [s EXCEPT !.sent = Append(@, [query |-> query, content |-> content]),
                   !.conversation = Append(@, Turn(query, content))]

WebsocketAccept ==
    \E u \in Users :
        /\ session.pc \in {"none", "closed"}
        /\ session' = websocket_accept(u)
        /\ UNCHANGED <<wiring, collection, nextId, last, uploadVars, job, accounts>>

WebsocketTurn ==
    \E recv \in {"message", "disconnect", "error"}, query \in Queries,
       genOk \in BOOLEAN, content \in Responses,
       send \in {"ok", "disconnect", "error"}, errSendOk \in BOOLEAN :
        LET s == websocket_turn(session, recv, query, genOk, content, send, errSendOk)
        IN /\ session.pc = "open"
           /\ Len(s.conversation) <= MaxTurns
           /\ session' = s
           /\ UNCHANGED <<wiring, collection, nextId, last, uploadVars, job, accounts>>

NextSession == WebsocketAccept \/ WebsocketTurn

SpecSession == Init /\ [][NextSession]_vars

\* C24: however a chat session ends (the client disconnects, an error, an
\* error while the error is reported), the history file was written and it
\* holds exactly the turns whose replies were sent to the client, in order.
C24_TurnLogFlushed ==
    session.pc = "closed" =>
        /\ session.flushed
        /\ session.history =
              [i \in 1..Len(session.sent) |->
                  Turn(session.sent[i].query, session.sent[i].content)]

\* a session with a sent turn ended by an error whose report failed too
C24_Witness ==
    /\ session.pc = "closed"
    /\ session.ended_by = "error_unreported"
    /\ Len(session.sent) >= 1

\* ---------------------------------------------------------------------------
\* auth_router: resend_verification and request_password_reset
\* ---------------------------------------------------------------------------

\* uuid4 tokens handed out over a behaviour
MaxTokens == 2

Emails == {"a@x", "b@x"}

\* a row of the users table
User(email, verified) ==
    [email |-> email, verified |-> verified, verification_token |-> 0,
     reset_token |-> 0]

\* db.query(User).filter(User.email == email).first()
UserByEmail(acc, email) == {u \in acc.users : u.email = email}

\* the table without the row of email
WithoutEmail(acc, email) == [acc EXCEPT !.users = @ \ UserByEmail(acc, email)]

\* POST /resend-verification: the response, and the accounts state after
\* it.  dbOk: whether the session's query and commit succeed.
resend_verification(acc, email, dbOk) ==
    LET found == UserByEmail(acc, email)
    IN IF ~dbOk
       THEN [status |-> 500, message |-> "Failed to resend verification email",
             accounts |-> acc]
       ELSE IF found = {}
       THEN [status |-> 200,
             message |-> "If the email exists, a verification link has been sent",
             accounts |-> acc]
       ELSE LET user == CHOOSE u \in found : TRUE
                renewed == [user EXCEPT !.verification_token = acc.next_token]
            IN IF user.verified
               THEN [status |-> 200, message |-> "Email is already verified",
                     accounts |-> acc]
               ELSE [status |-> 200,
                     message |-> "Verification email sent successfully",
                     accounts |->
                        [users |-> (acc.users \ {user}) \cup {renewed},
                         next_token |-> acc.next_token + 1,
                         outbox |-> acc.outbox \cup
                            {[kind |-> "verification", to |-> email,
                              token |-> acc.next_token]}]]

\* POST /request-password-reset
request_password_reset(acc, email, dbOk) ==
    LET found == UserByEmail(acc, email)
    IN IF ~dbOk
       THEN [status |-> 500, message |-> "Failed to send password reset email",
             accounts |-> acc]
       ELSE IF found = {}
       THEN [status |-> 200,
             message |-> "If the email exists, a password reset link has been sent",
             accounts |-> acc]
       ELSE LET user == CHOOSE u \in found : TRUE
                renewed == [user EXCEPT !.reset_token = acc.next_token]
            IN [status |-> 200,
                message |-> "Password reset email sent successfully",
                accounts |->
                    [users |-> (acc.users \ {user}) \cup {renewed},
                     next_token |-> acc.next_token + 1,
                     outbox |-> acc.outbox \cup
                        {[kind |-> "password_reset", to |-> email,
                          token |-> acc.next_token]}]]

ResendVerification ==
    \E email \in Emails, dbOk \in BOOLEAN :
        LET r == resend_verification(accounts, email, dbOk)
        IN /\ r.accounts.next_token <= MaxTokens + 1
           /\ accounts' = r.accounts
           /\ last' = [op |-> "resend_verification", email |-> email,
                       dbOk |-> dbOk, before |-> accounts,
                       status |-> r.status, message |-> r.message]
           /\ UNCHANGED <<wiring, collection, nextId, uploadVars, job, session>>

RequestPasswordReset ==
    \E email \in Emails, dbOk \in BOOLEAN :
        LET r == request_password_reset(accounts, email, dbOk)
        IN /\ r.accounts.next_token <= MaxTokens + 1
           /\ accounts' = r.accounts
           /\ last' = [op |-> "request_password_reset", email |-> email,
                       dbOk |-> dbOk, before |-> accounts,
                       status |-> r.status, message |-> r.message]
           /\ UNCHANGED <<wiring, collection, nextId, uploadVars, job, session>>

\* the users table holds at most one row per email, verified or not
InitAuth ==
    /\ kbClass \in {"root", "services"}
    /\ knowledge_base = kbClass
    /\ collection = {}
    /\ nextId = 1
    /\ last = NoCall
    /\ registry = DefaultRegistry
    /\ disk = [uploads |-> {r.file_id : r \in registry},
               user_dirs |-> {r.user_id : r \in registry}, temp |-> {},
               page_files |-> {}]
    /\ pending = {}
    /\ indexing = {}
    /\ job = NoJob
    /\ session = NoSession
    /\ \E registered \in SUBSET Emails, verified \in SUBSET Emails :
          accounts = [NoAccounts EXCEPT
                         !.users = {User(e, e \in verified) : e \in registered}]

NextAuth == ResendVerification \/ RequestPasswordReset

SpecAuth == InitAuth /\ [][NextAuth]_vars

\* C27: the response of resend_verification and of request_password_reset
\* is the one the same request gets when the email has no row in the users
\* table.
C27_NoEmailEnumeration ==
    /\ last.op = "resend_verification" =>
          LET other == resend_verification(WithoutEmail(last.before, last.email),
                                           last.email, last.dbOk)
          IN last.status = other.status /\ last.message = other.message
    /\ last.op = "request_password_reset" =>
          LET other == request_password_reset(WithoutEmail(last.before, last.email),
                                              last.email, last.dbOk)
          IN last.status = other.status /\ last.message = other.message

\* ---------------------------------------------------------------------------
\* A delete request racing with the background tasks of the same file
\* ---------------------------------------------------------------------------

\* tenant U1 has just uploaded F1: the record is committed, the file stored,
\* the indexing task queued
InitRace ==
    /\ kbClass \in {"root", "services"}
    /\ knowledge_base = kbClass
    /\ collection = {}
    /\ nextId = 1
    /\ last = NoCall
    /\ registry = {FileRecord("F1", "U1", "application/pdf", TRUE,
                              [p \in {"page_1"} |-> TextA])}
    /\ disk = [uploads |-> {"F1"}, user_dirs |-> {"U1"}, temp |-> {},
               page_files |-> {}]
    /\ pending = registry
    /\ indexing = {}
    /\ job = NoJob
    /\ session = NoSession
    /\ accounts = NoAccounts

NextRace ==
    \/ ProcessAndIndexFileStart
    \/ ProcessAndIndexFileExtract
    \/ ProcessAndIndexFile
    \/ ReindexStart
    \/ ReindexPrepare
    \/ ReindexExtract
    \/ ReindexFile
    \/ ReindexFinish
    \/ DeleteFile

SpecRace == InitRace /\ [][NextRace]_vars

\* every background task has come to its end
TasksFinished ==
    /\ pending = {}
    /\ indexing = {}
    /\ job.pc \in {"idle", "done", "aborted"}

\* C28: whatever the interleaving of a file's indexing task or a reindex run
\* with a delete request for the file, once the background tasks have
\* finished the index holds no chunk of a file that has no FileRecord.
\* Stated for a delete whose store calls succeeded on a file within the
\* query ceiling, so that what is left over is left by the interleaving.
C28_RegistryIndexConsistent ==
    (/\ last.op = "delete_file"
     /\ last.status = 200
     /\ last.storeOk
     /\ Cardinality(ChunksOf(last.before, last.file_id))
            <= NUMBER_OF_EXPECTED_MAX_DOCUMENTS
     /\ TasksFinished)
    => \A c \in collection : \E r \in registry : r.file_id = c.file_id

\* ---------------------------------------------------------------------------
\* Two reindex runs of one tenant under way at the same time
\* ---------------------------------------------------------------------------

Reindex2Start ==
    \E u \in Users :
        /\ job.other.pc \in {"idle", "done", "aborted"}
        /\ job.other.runs < MaxRuns
        /\ job' = [job EXCEPT !.other = reindex_start(@, registry, disk, u)]
        /\ UNCHANGED <<wiring, web, collection, nextId, last, uploadVars>>

Reindex2Prepare ==
    \E mkdirOk \in BOOLEAN :
        LET p == reindex_prepare(job.other, disk, mkdirOk)
        IN /\ job.other.pc = "running"
           /\ job.other.i <= Len(job.other.files)
           /\ job' = [job EXCEPT !.other = p.job]
           /\ disk' = p.disk
           /\ UNCHANGED <<wiring, web, collection, nextId, last, registry,
                          pending, indexing>>

Reindex2Extract ==
    LET p == reindex_extract(job.other, disk)
    IN /\ job.other.pc = "in_try"
       /\ job' = [job EXCEPT !.other = p.job]
       /\ disk' = p.disk
       /\ UNCHANGED <<wiring, web, collection, nextId, last, registry,
                      pending, indexing>>

Reindex2File ==
    \E addOk \in BOOLEAN :
        LET p == reindex_index(job.other, disk, kbClass, collection, nextId, addOk)
            f == job.other.files[job.other.i].file_id
        IN /\ job.other.pc = "extracted"
           /\ p.next <= MaxJobIds + 1
           /\ job' = [job EXCEPT !.other = p.job,
                                 !.foreign_run = @ \cup {f},
                                 !.foreign_gap = @ \cup {f}]
           /\ disk' = p.disk
           /\ collection' = p.coll
           /\ nextId' = p.next
           /\ UNCHANGED <<wiring, web, last, registry, pending, indexing>>

Reindex2Finish ==
    /\ job.other.pc = "running"
    /\ job.other.i > Len(job.other.files)
    /\ job' = [job EXCEPT !.other = reindex_finish(@, collection)]
    /\ UNCHANGED <<wiring, web, collection, nextId, last, uploadVars>>

\* tenant U1 has one PDF, stored and registered; no task is queued
InitRuns ==
    /\ kbClass \in {"root", "services"}
    /\ knowledge_base = kbClass
    /\ collection = {}
    /\ nextId = 1
    /\ last = NoCall
    /\ registry = {FileRecord("F1", "U1", "application/pdf", TRUE,
                              [p \in {"page_1"} |-> TextA])}
    /\ disk = [uploads |-> {"F1"}, user_dirs |-> {"U1"}, temp |-> {},
               page_files |-> {}]
    /\ pending = {}
    /\ indexing = {}
    /\ job = NoJob
    /\ session = NoSession
    /\ accounts = NoAccounts

NextRuns ==
    \/ ReindexStart
    \/ ReindexPrepare
    \/ ReindexExtract
    \/ ReindexFile
    \/ ReindexFinish
    \/ Reindex2Start
    \/ Reindex2Prepare
    \/ Reindex2Extract
    \/ Reindex2File
    \/ Reindex2Finish

SpecRuns == InitRuns /\ [][NextRuns]_vars

\* the working directory a run is using, if it is inside its try
WorkingDirs(j) ==
    IF j.pc \in {"in_try", "extracted"}
    THEN {reindex_temp_dir(j.files[j.i].file_id)}
    ELSE {}

\* C29: two reindex runs under way at the same time never work in the same
\* temporary directory, and the page files a run has extracted are still
\* there until the run itself has indexed them.
C29_WorkingAreasNotShared ==
    /\ WorkingDirs(job) \cap WorkingDirs(job.other) = {}
    /\ \A j \in {job, job.other} :
          j.pc = "extracted" => WorkingDirs(j) \subseteq disk.page_files
====
